---- MODULE Spec2Model ----
(***************************************************************************)
(* Model of src/split_jpeg.py: the marker-driven record scanner            *)
(* (parse_one_jpeg) and the blob splitter (split_concatenated_jpegs).      *)
(* Offsets are 0-based as in the source; At(data, k) is data[k].           *)
(* A second specification, BgzSpec, models src/bgz_dump.py: the pointer    *)
(* table walk (read_pointer_blocks) and the block writer (extract_blocks). *)
(***************************************************************************)
EXTENDS Integers, Sequences, FiniteSets, TLC

\* ------------------------------------------------------------------ bounds

\* A blob is the concatenation of at most MaxTokens tokens of Tokens.
MaxTokens == 5

\* The same, for the blobs of the specification with fairness.
MaxFairTokens == 3

\* The splitting pass is run MaxPass times on the same blob.
MaxPass == 2

\* A pointer table has at most MaxCount entries, and at most as many are read.
MaxCount == 2

\* ------------------------------------------------------- program constants

SOI == <<255, 216>>

SOS == 218

EOI == 217

FILL == 255

ZERO == 0

NO_LEN == {216, 217} \cup (208 .. 215) \cup {1}

\* ------------------------------------------------------------- the inputs

Tokens ==
    { SOI,                            \* start signature
      <<255, 217>>,                   \* end marker
      <<255, 218, 0, 2>>,             \* scan-start segment, empty header
      <<255, 218>>,                   \* a scan-start marker, length bytes follow
      <<255, 224>>,                   \* a segment marker, length bytes follow
      <<255, 224, 0, 4, 255, 216>>,   \* a segment of declared length 4
      <<255>>,                        \* a lone escape byte
      <<0>> }                         \* a zero byte

RECURSIVE Concat(_)
Concat(ts) == IF ts = <<>> THEN <<>> ELSE Head(ts) \o Concat(Tail(ts))

TokenSeqs(max) == UNION { [1 .. k -> Tokens] : k \in 0 .. max }

TokenBlobs(max) == { Concat(ts) : ts \in TokenSeqs(max) }

\* FFD8 FFE0 0004 0102 FFDA 0002 AA FF00 BB FFD9
ScenarioBlob ==
    <<255, 216, 255, 224, 0, 4, 1, 2, 255, 218, 0, 2, 170, 255, 0, 187, 255, 217>>

\* a rejected start signature, a second one, then a well-formed record
FalseStartBlob ==
    <<255, 216, 255, 224, 255, 216, 255, 216, 255, 218, 0, 2, 255, 217>>

\* two records with a rejected start signature (declared length 0) between
RejectedBetweenBlob ==
    <<255, 216, 255, 217, 255, 216, 255, 224, 0, 0, 255, 216, 255, 217>>

Scenarios == {ScenarioBlob, FalseStartBlob, RejectedBetweenBlob}

Blobs == TokenBlobs(MaxTokens) \cup Scenarios

FairBlobs == TokenBlobs(MaxFairTokens) \cup Scenarios

\* ---------------------------------------------------------------- helpers

At(data, k) == data[k + 1]

\* data[a:b] of Python: both ends clamped to the sequence
Slice(data, a, b) ==
    LET lo == IF a < 0 THEN 0 ELSE a
        hi == IF b > Len(data) THEN Len(data) ELSE b
    IN  IF hi <= lo THEN <<>> ELSE SubSeq(data, lo + 1, hi)

\* struct.unpack(">H", b)[0]: -1 stands for struct.error (b is not 2 bytes)
u16be(b) == IF Len(b) # 2 THEN -1 ELSE b[1] * 256 + b[2]

\* data.find(SOI, start): lowest k >= start with data[k:k+2] = SOI, else -1
find_next_soi(data, start) ==
    LET hits == { k \in 0 .. Len(data) - 2 :
                    k >= start /\ Slice(data, k, k + 2) = SOI }
    IN  IF hits = {} THEN -1
        ELSE CHOOSE k \in hits : \A m \in hits : k <= m

\* a scanner that takes the byte after one escape byte for the category byte
SkipFillOne(data, j) == j + 1

\* while j < n and data[j] == 0xFF: j += 1
RECURSIVE SkipFill(_, _)
SkipFill(data, j) ==
    IF j < Len(data) /\ At(data, j) = FILL THEN SkipFill(data, j + 1) ELSE j

\* if start < 0 or start + 2 > n or data[start:start+2] != SOI
NotAtSoi(data, start) ==
    start < 0 \/ start + 2 > Len(data) \/ Slice(data, start, start + 2) # SOI

\* while i != n - 1
LoopGuardNotEqual(data, c) == c # Len(data) - 1

\* while i < n - 1
LoopGuard(data, c) == c < Len(data) - 1

\* a scanner without the stuffing rule
NeverStuffing(scan, marker) == FALSE

\* if in_scan and marker == 0x00
IsStuffing(scan, marker) == scan /\ marker = ZERO

\* a scanner that takes a start signature inside a record for its end
IsEoiOrSoi(marker) == marker \in {217, 216}

\* if marker == 0xD9
IsEoi(marker) == marker = EOI

\* if marker == SOS
IsSos(marker) == marker = SOS

\* a scanner that takes FF 00 for a standalone marker in every mode
IsStandaloneOrZero(marker) == marker \in NO_LEN \cup {0}

\* if marker in NO_LEN
IsStandalone(marker) == marker \in NO_LEN

\* a length check that lets a one-byte length field through
TruncatedOffByOne(data, c) == c + 1 > Len(data)

\* if i + 2 > n
Truncated(data, c) == c + 2 > Len(data)

\* a length check that accepts the lengths 0 and 1
BadLenNegative(seglen) == seglen < 0

\* if seglen < 2
BadLen(seglen) == seglen < 2

\* a walker that takes the declared length not to count its own two bytes
SkipSegmentPlusTwo(c, seglen) == c + seglen + 2

\* i += seglen
SkipSegment(c, seglen) == c + seglen

\* a scanner that takes the end of data for the end of the record
ExhaustedReturns(c, scan) == [out |-> "return", i |-> c, in_scan |-> scan]

\* line 79, reached when the loop test fails: raise ValueError
Exhausted(c, scan) == [out |-> "ValueError", i |-> c, in_scan |-> scan]

\* a scanner that takes a fill run at the end of data for the end of the
\* record
FillBreakReturns(c, scan) ==
    [out |-> "return", i |-> c + 1, in_scan |-> scan]

\* lines 39-40: the fill run reaches the end of data; break, then line 79
FillBreak(c, scan) == [out |-> "ValueError", i |-> c, in_scan |-> scan]

\* a scanner whose ScanState outlives the record attempt
StaleScan(scan) == scan

\* line 28: in_scan = False at the start of every record attempt
FreshScan(scan) == FALSE

\* a splitter that skips one byte of a false start
SkipOneByte(s) == s + 1

\* a splitter that does not move past a false start
SkipNothing(s) == s

\* line 97: pos = soi + 2
SkipFalseStart(s) == s + 2

\* a splitter that resumes one byte into the record it accepted
AfterRecordAtStart(s, e) == s + 1

\* a splitter that resumes right after the start signature it accepted
AfterRecordRescans(s, e) == s + 2

\* line 105: pos = end
AfterRecord(s, e) == e

\* line 104: idx += 1
NextIndex(n) == n + 1

\* a splitter whose search position outlives the pass
StalePos(p) == p

\* line 87: pos = 0 at the start of every pass
FreshPos(p) == 0

\* The outcome of reading and skipping a declared length at cursor c
\* (lines 58-63 and 72-77): the new cursor, or the exception raised.
Segment(data, c, scan, setscan) ==
    IF Truncated(data, c)
    THEN [out |-> "ValueError", i |-> c, in_scan |-> scan]
    ELSE LET seglen == u16be(Slice(data, c, c + 2)) IN
         IF seglen = -1
         THEN [out |-> "struct.error", i |-> c, in_scan |-> scan]
         ELSE IF BadLen(seglen)
         THEN [out |-> "ValueError", i |-> c, in_scan |-> scan]
         ELSE [out |-> "continue", i |-> SkipSegment(c, seglen),
               in_scan |-> (scan \/ setscan)]

\* One evaluation of the while loop of parse_one_jpeg from cursor c:
\* the loop test and, when it passes, one run of the loop body.
LoopBody(data, c, scan) ==
    IF ~LoopGuard(data, c)
    THEN Exhausted(c, scan)
    ELSE IF c < 0 \/ c >= Len(data)
    THEN [out |-> "IndexError", i |-> c, in_scan |-> scan]
    ELSE IF At(data, c) # FILL
    THEN [out |-> "continue", i |-> c + 1, in_scan |-> scan]
    ELSE LET j == SkipFill(data, c) IN
         IF j >= Len(data)
         THEN FillBreak(c, scan)
         ELSE LET marker == At(data, j) IN
              IF IsStuffing(scan, marker)
              THEN [out |-> "continue", i |-> j + 1, in_scan |-> scan]
              ELSE IF IsEoi(marker)
              THEN [out |-> "return", i |-> j + 1, in_scan |-> scan]
              ELSE IF IsSos(marker)
              THEN Segment(data, j + 1, scan, TRUE)
              ELSE IF IsStandalone(marker)
              THEN [out |-> "continue", i |-> j + 1, in_scan |-> scan]
              ELSE Segment(data, j + 1, scan, FALSE)

\* f"{idx:04d}": the decimal digits of n, zero-padded to at least 4
RECURSIVE Digits(_)
Digits(n) == IF n < 10 THEN <<n>> ELSE Append(Digits(n \div 10), n % 10)

RECURSIVE PadLeft(_, _)
PadLeft(ds, w) == IF Len(ds) >= w THEN ds ELSE PadLeft(<<0>> \o ds, w)

\* f"img_{idx}.jpg": the index without its padding
OutNameUnpadded(n) == <<"img_">> \o Digits(n) \o <<".jpg">>

\* f"img_{idx:04d}.jpg"
OutName(n) == <<"img_">> \o PadLeft(Digits(n), 4) \o <<".jpg">>

\* ------------------------------------------------------------------ state

VARIABLES
    blob,      \* data: the bytes read from blob_path
    pos,       \* search position of the splitter
    idx,       \* index of the next output file
    soi,       \* the occurrence being attempted
    end,       \* the offset parse_one_jpeg returned
    i,         \* cursor of parse_one_jpeg
    in_scan,   \* ScanState of parse_one_jpeg
    exc,       \* the exception in flight, "none" when there is none
    pc,        \* "find", "scan", "except", "write", "done", "crashed"
    files,     \* out_dir: file name -> bytes written
    yielded,   \* the (start, end) ranges written in this pass, in order
    ret,       \* the value the last finished pass returned
    pass,      \* the number of the pass being run
    earlier,   \* the ranges the previous pass yielded
    rejected   \* the occurrences skipped as false starts in this pass

VARIABLES
    bgz,               \* the bytes of the file at path
    table_offset,      \* arguments of read_pointer_blocks
    count,
    endian,
    base,
    require_monotonic,
    overwrite,         \* arguments of extract_blocks
    skip_zero,
    abs_ptrs,          \* the absolute offsets read from the table
    blocks,            \* the Blocks built so far
    bk,                \* the index of the entry or block the loop is at
    out_blocks,        \* out_dir of extract_blocks: file name -> bytes
    bexc,              \* the exception that ended the run, "none" if none
    bpass,             \* the number of the run over the same file
    bpc                \* "idle", "open", "walk", "extract", "done", "raised"

splitvars == <<blob, pos, idx, soi, end, i, in_scan, exc, pc, files, yielded,
               ret, pass, earlier, rejected>>

bgzvars == <<bgz, table_offset, count, endian, base, require_monotonic,
             overwrite, skip_zero, abs_ptrs, blocks, bk, out_blocks, bexc,
             bpass, bpc>>

vars == <<splitvars, bgzvars>>

\* bgz_dump is not running
BgzIdle ==
    /\ bgz = <<>>
    /\ table_offset = 0
    /\ count = 0
    /\ endian = "be"
    /\ base = 0
    /\ require_monotonic = TRUE
    /\ overwrite = FALSE
    /\ skip_zero = TRUE
    /\ abs_ptrs = <<>>
    /\ blocks = <<>>
    /\ bk = 0
    /\ out_blocks = {}
    /\ bexc = "none"
    /\ bpass = 1
    /\ bpc = "idle"

Start(blobs) ==
    /\ blob \in blobs
    /\ pos = 0
    /\ idx = 0
    /\ soi = -1
    /\ end = -1
    /\ i = 0
    /\ in_scan = FALSE
    /\ exc = "none"
    /\ pc = "find"
    /\ files = <<>>
    /\ yielded = <<>>
    /\ ret = -1
    /\ pass = 1
    /\ earlier = <<>>
    /\ rejected = <<>>
    /\ BgzIdle

Init == Start(Blobs)

FairInit == Start(FairBlobs)

\* lines 90-95 and 23-28: find the next start signature; leave the loop when
\* there is none, else enter parse_one_jpeg at it.
FindNext ==
    /\ pc = "find"
    /\ LET s == find_next_soi(blob, pos) IN
       /\ soi' = s
       /\ IF s < 0
          THEN /\ pc' = "done"
               /\ ret' = idx
               /\ UNCHANGED <<i, in_scan, exc>>
          ELSE IF NotAtSoi(blob, s)
          THEN /\ pc' = "except"
               /\ exc' = "ValueError"
               /\ UNCHANGED <<i, in_scan, ret>>
          ELSE /\ pc' = "scan"
               /\ i' = s + 2
               /\ in_scan' = FreshScan(in_scan)
               /\ UNCHANGED <<exc, ret>>
    /\ UNCHANGED <<blob, pos, idx, end, files, yielded, pass, earlier,
                   rejected>>
    /\ UNCHANGED bgzvars

\* lines 30-79: one test of the loop condition and one run of the loop body
ScanStep ==
    /\ pc = "scan"
    /\ LET r == LoopBody(blob, i, in_scan) IN
       /\ i' = r.i
       /\ in_scan' = r.in_scan
       /\ IF r.out = "continue"
          THEN pc' = "scan" /\ UNCHANGED <<exc, end>>
          ELSE IF r.out = "return"
          THEN pc' = "write" /\ end' = r.i /\ UNCHANGED exc
          ELSE pc' = "except" /\ exc' = r.out /\ UNCHANGED end
    /\ UNCHANGED <<blob, pos, idx, soi, files, yielded, ret, pass, earlier,
                   rejected>>
    /\ UNCHANGED bgzvars

\* lines 96-98: except ValueError; any other exception leaves the function
Catch ==
    /\ pc = "except"
    /\ IF exc = "ValueError"
       THEN /\ pos' = SkipFalseStart(soi)
            /\ pc' = "find"
            /\ exc' = "none"
            /\ rejected' = Append(rejected, soi)
       ELSE /\ pc' = "crashed"
            /\ UNCHANGED <<pos, exc, rejected>>
    /\ UNCHANGED <<blob, idx, soi, end, i, in_scan, files, yielded, ret,
                   pass, earlier>>
    /\ UNCHANGED bgzvars

\* lines 100-105: write data[soi:end] as img_<idx>.jpg, count it, move on
WriteRecord ==
    /\ pc = "write"
    /\ LET name == OutName(idx) IN
       files' = [f \in DOMAIN files \cup {name} |->
                    IF f = name THEN Slice(blob, soi, end) ELSE files[f]]
    /\ yielded' = Append(yielded, [start |-> soi, end |-> end])
    /\ idx' = NextIndex(idx)
    /\ pos' = AfterRecord(soi, end)
    /\ pc' = "find"
    /\ UNCHANGED <<blob, soi, end, i, in_scan, exc, ret, pass, earlier,
                   rejected>>
    /\ UNCHANGED bgzvars

\* line 127 again: split_concatenated_jpegs is called once more on the same
\* file; lines 87-88 set pos and idx anew.
Rerun ==
    /\ pc = "done"
    /\ pass < MaxPass
    /\ pass' = pass + 1
    /\ earlier' = yielded
    /\ yielded' = <<>>
    /\ rejected' = <<>>
    /\ pos' = FreshPos(pos)
    /\ idx' = 0
    /\ pc' = "find"
    /\ UNCHANGED <<blob, soi, end, i, in_scan, exc, files, ret>>
    /\ UNCHANGED bgzvars

Next == FindNext \/ ScanStep \/ Catch \/ WriteRecord \/ Rerun

Spec == Init /\ [][Next]_vars

\* the interpreter runs the one thread of the program for as long as it can
FairSpec == FairInit /\ [][Next]_vars /\ WF_vars(Next)

TypeOK ==
    /\ pc \in {"idle", "find", "scan", "except", "write", "done", "crashed"}
    /\ pos \in 0 .. Len(blob)
    /\ idx \in Nat
    /\ in_scan \in BOOLEAN
    /\ pass \in 1 .. MaxPass

\* ------------------------------------------------------------- bgz_dump.py

\* the inputs: a table of big-endian pointers at table_offset, then a payload
PtrValues == {0, 8, 12, 16}

Payloads ==
    { <<>>,
      <<255, 216, 255, 224>>,               \* a JPEG signature
      <<115, 104, 100, 46, 0, 0, 0, 0>> }   \* "shd." and four zero bytes

TableOffsets == {0, 4}

Bases == {-4, 0, 4}

Endians == {"be", "le"}

PackBE(p) ==
    <<(p \div 16777216) % 256, (p \div 65536) % 256, (p \div 256) % 256,
      p % 256>>

Zeros(n) == [k \in 1 .. n |-> 0]

BgzFiles ==
    { Zeros(o) \o Concat([k \in 1 .. Len(t) |-> PackBE(t[k])]) \o pl :
        o \in TableOffsets,
        t \in UNION { [1 .. n -> PtrValues] : n \in 0 .. MaxCount },
        pl \in Payloads }

\* struct.unpack(">I", b)[0] and struct.unpack("<I", b)[0]
UnpackU32(b, e) ==
    IF e = "be"
    THEN b[1] * 16777216 + b[2] * 65536 + b[3] * 256 + b[4]
    ELSE b[4] * 16777216 + b[3] * 65536 + b[2] * 256 + b[1]

\* the words a run reads as pointers stay below 2^31, the largest integer of
\* the model checker: a larger one is out of range like any other that is
\* past the end of the file
RECURSIVE Representable(_, _, _, _)
Representable(data, off, n, e) ==
    LET b == Slice(data, off, off + 4) IN
    IF n = 0 \/ Len(b) # 4 THEN TRUE
    ELSE /\ (IF e = "be" THEN b[1] ELSE b[4]) < 128
         /\ Representable(data, off + 4, n - 1, e)

\* lines 70-72: count calls of read_u32 from offset off on; "EOFError" when
\* one of them gets fewer than 4 bytes
RECURSIVE ReadPtrs(_, _, _, _)
ReadPtrs(data, off, n, e) ==
    IF n = 0 THEN <<>>
    ELSE LET b == Slice(data, off, off + 4) IN
         IF Len(b) # 4 THEN "EOFError"
         ELSE LET rest == ReadPtrs(data, off + 4, n - 1, e) IN
              IF rest = "EOFError" THEN "EOFError"
              ELSE <<UnpackU32(b, e)>> \o rest

\* return lo <= n < hi
within(n, lo, hi) == lo <= n /\ n < hi

\* a sanity check that lets a size of 0 through
BadSizeOverrunOnly(size, ofs, file_size) == (ofs + size) > file_size

\* if size <= 0 or (ofs + size) > file_size
BadSize(size, ofs, file_size) == size <= 0 \/ (ofs + size) > file_size

\* detect_ext(first16)
detect_ext(first16) ==
    IF Len(first16) >= 3 /\ first16[1] = 255 /\ first16[2] = 216
         /\ first16[3] = 255
    THEN "jpg"
    ELSE IF Len(first16) >= 4 /\ SubSeq(first16, 1, 4) = <<115, 104, 100, 46>>
    THEN "shd"
    ELSE "bin"

Block(index, ofs, size, ext, note) ==
    [index |-> index, ofs |-> ofs, size |-> size, ext |-> ext, note |-> note]

\* lines 80-108: the Block of entry k (from 0) of the absolute offsets ptrs
BlockOf(data, ptrs, k, monotonic) ==
    LET file_size == Len(data)
        ofs == ptrs[k + 1]
    IN  IF ~within(ofs, 0, file_size)
        THEN Block(k, ofs, 0, "bin", "OUT_OF_RANGE")
        ELSE IF k < Len(ptrs) - 1 /\ ptrs[k + 2] < ofs
        THEN IF monotonic
             THEN Block(k, ofs, 0, "bin", "NON_MONOTONIC_NEXT_PTR")
             ELSE Block(k, ofs, 0, "bin", "NON_MONOTONIC_NEXT_PTR")
        ELSE LET size == IF k < Len(ptrs) - 1 THEN ptrs[k + 2] - ofs
                         ELSE file_size - ofs
             IN  IF BadSize(size, ofs, file_size)
                 THEN Block(k, ofs, 0, "bin", "BAD_SIZE")
                 ELSE Block(k, ofs, size,
                            detect_ext(Slice(data, ofs, ofs + 16)), "")

\* the hexadecimal digits of n >= 0, as numbers 0 .. 15
RECURSIVE HexDigits(_)
HexDigits(n) ==
    IF n < 16 THEN <<n>> ELSE Append(HexDigits(n \div 16), n % 16)

\* f"{n:08X}": the sign, then the digits zero-padded so that both together
\* have 8 characters
Hex8(n) ==
    IF n >= 0 THEN <<"", PadLeft(HexDigits(n), 8)>>
    ELSE <<"-", PadLeft(HexDigits(0 - n), 7)>>

\* f"block_{b.index:04d}_{b.ofs:08X}_{b.size:08X}.{b.ext}"
BlockName(b) ==
    <<"block_", PadLeft(Digits(b.index), 4), "_", Hex8(b.ofs), "_",
      Hex8(b.size), ".", b.ext>>

SplitIdle ==   \* split_jpeg is not running
    /\ blob = <<>> /\ pos = 0 /\ idx = 0 /\ soi = -1 /\ end = -1 /\ i = 0
    /\ in_scan = FALSE /\ exc = "none" /\ pc = "idle" /\ files = <<>>
    /\ yielded = <<>> /\ ret = -1 /\ pass = 1 /\ earlier = <<>>
    /\ rejected = <<>>

BgzInit ==
    /\ SplitIdle
    /\ bgz \in BgzFiles
    /\ table_offset \in TableOffsets
    /\ count \in 0 .. MaxCount
    /\ endian \in Endians
    /\ Representable(bgz, table_offset, count, endian)
    /\ base \in Bases
    /\ require_monotonic \in BOOLEAN
    /\ overwrite \in BOOLEAN
    /\ skip_zero \in BOOLEAN
    /\ abs_ptrs = <<>>
    /\ blocks = <<>>
    /\ bk = 0
    /\ out_blocks = {}
    /\ bexc = "none"
    /\ bpass = 1
    /\ bpc = "open"

bgzargs ==
    <<bgz, table_offset, count, endian, base, require_monotonic, overwrite,
      skip_zero>>

\* lines 65-77: read count pointers at table_offset, make them absolute
ReadTable ==
    /\ bpc = "open"
    /\ LET ptrs == ReadPtrs(bgz, table_offset, count, endian) IN
       IF ptrs = "EOFError"
       THEN /\ bexc' = "EOFError"
            /\ bpc' = "raised"
            /\ UNCHANGED abs_ptrs
       ELSE /\ abs_ptrs' = [k \in 1 .. Len(ptrs) |-> base + ptrs[k]]
            /\ bpc' = "walk"
            /\ UNCHANGED bexc
    /\ blocks' = <<>>
    /\ bk' = 0
    /\ UNCHANGED <<bgzargs, out_blocks, bpass, splitvars>>

\* lines 79-108: one entry of the table becomes one Block
WalkEntry ==
    /\ bpc = "walk"
    /\ bk < Len(abs_ptrs)
    /\ blocks' = Append(blocks, BlockOf(bgz, abs_ptrs, bk, require_monotonic))
    /\ bk' = bk + 1
    /\ UNCHANGED <<bgzargs, abs_ptrs, out_blocks, bexc, bpass, bpc, splitvars>>

\* line 110, then line 176: the blocks go to extract_blocks
WalkReturn ==
    /\ bpc = "walk"
    /\ bk = Len(abs_ptrs)
    /\ bk' = 0
    /\ bpc' = "extract"
    /\ UNCHANGED <<bgzargs, abs_ptrs, blocks, out_blocks, bexc, bpass,
                   splitvars>>

Exists(dir, name) == \E f \in dir : f.name = name

WriteFile(dir, name, data) ==
    {f \in dir : f.name # name} \cup {[name |-> name, data |-> data]}

\* lines 122-141: one block is skipped or written
ExtractBlock ==
    /\ bpc = "extract"
    /\ bk < Len(blocks)
    /\ LET b == blocks[bk + 1]
           name == BlockName(b)
       IN  IF skip_zero /\ b.size = 0
           THEN /\ bk' = bk + 1
                /\ UNCHANGED <<out_blocks, bexc, bpc>>
           ELSE IF ~overwrite /\ Exists(out_blocks, name)
           THEN /\ bk' = bk + 1
                /\ UNCHANGED <<out_blocks, bexc, bpc>>
           ELSE IF b.ofs < 0     \* f.seek of a negative offset
           THEN /\ bexc' = "OSError"
                /\ bpc' = "raised"
                /\ UNCHANGED <<out_blocks, bk>>
           ELSE /\ out_blocks' =
                     WriteFile(out_blocks, name,
                               Slice(bgz, b.ofs, b.ofs + b.size))
                /\ bk' = bk + 1
                /\ UNCHANGED <<bexc, bpc>>
    /\ UNCHANGED <<bgzargs, abs_ptrs, blocks, bpass, splitvars>>

\* the loop of line 122 is over
ExtractReturn ==
    /\ bpc = "extract"
    /\ bk = Len(blocks)
    /\ bpc' = "done"
    /\ UNCHANGED <<bgzargs, abs_ptrs, blocks, bk, out_blocks, bexc, bpass,
                   splitvars>>

\* the script is run again on the same file and the same output directory
BgzRerun ==
    /\ bpc = "done"
    /\ bpass < MaxPass
    /\ bpass' = bpass + 1
    /\ bpc' = "open"
    /\ UNCHANGED <<bgzargs, abs_ptrs, blocks, bk, out_blocks, bexc, splitvars>>

BgzNext ==
    ReadTable \/ WalkEntry \/ WalkReturn \/ ExtractBlock \/ ExtractReturn
        \/ BgzRerun

BgzSpec == BgzInit /\ [][BgzNext]_vars

BgzTypeOK ==
    /\ bpc \in {"idle", "open", "walk", "extract", "done", "raised"}
    /\ bexc \in {"none", "EOFError", "OSError"}
    /\ bk \in 0 .. MaxCount
    /\ bpass \in 1 .. MaxPass
    /\ Len(blocks) <= count

\* ----------------------------------------------------- notions of the claims

IsSoiAt(data, k) ==
    k >= 0 /\ k + 2 <= Len(data) /\ At(data, k) = 255 /\ At(data, k + 1) = 216

IsEoiAt(data, k) ==
    k >= 0 /\ k + 2 <= Len(data) /\ At(data, k) = 255 /\ At(data, k + 1) = 217

\* marker bytes of segments that carry a declared length (not scan-start)
LengthMarkers == (192 .. 254) \ ((208 .. 217) \cup {218})

\* the entropy-coded payload from offset k up to the end marker that closes
\* data: bytes other than FF, stuffed pairs FF 00, then FF D9 and nothing more
RECURSIVE WfPayload(_, _)
WfPayload(data, k) ==
    IF k + 2 > Len(data) THEN FALSE
    ELSE IF At(data, k) # 255 THEN WfPayload(data, k + 1)
    ELSE IF At(data, k + 1) = 217 THEN k + 2 = Len(data)
    ELSE IF At(data, k + 1) = 0 THEN WfPayload(data, k + 2)
    ELSE FALSE

\* zero or more segments FF m hi lo with hi*256+lo >= 2 bytes inside data,
\* then the scan-start segment and the payload
RECURSIVE WfSegments(_, _)
WfSegments(data, k) ==
    IF k + 4 > Len(data) \/ At(data, k) # 255 THEN FALSE
    ELSE LET m == At(data, k + 1)
             L == At(data, k + 2) * 256 + At(data, k + 3)
         IN  IF L < 2 \/ k + 2 + L > Len(data) THEN FALSE
             ELSE IF m = 218 THEN WfPayload(data, k + 2 + L)
             ELSE IF m \in LengthMarkers THEN WfSegments(data, k + 2 + L)
             ELSE FALSE

\* data is exactly one well-formed record
WellFormed(data) == IsSoiAt(data, 0) /\ WfSegments(data, 2)

Range(s, e) == [start |-> s, end |-> e]

\* ------------------------------------------------------------------ claims

\* C1: any two consecutively yielded records of one pass satisfy
\* record[k].end <= record[k+1].start, also with rejected candidates between.
C1_NonOverlap ==
    \A k \in 1 .. Len(yielded) - 1 : yielded[k].end <= yielded[k + 1].start

\* two records of one pass with a rejected start signature between them
C1_Witness ==
    /\ pc = "done"
    /\ \E k \in 1 .. Len(yielded) - 1 : \E n \in 1 .. Len(rejected) :
          /\ yielded[k].end <= rejected[n]
          /\ rejected[n] < yielded[k + 1].start

\* C2: every yielded record satisfies 0 <= start < end <= len(blob), and so
\* does the range parse_one_jpeg has just returned.
C2_RangeInBlob ==
    /\ \A k \in 1 .. Len(yielded) :
          /\ 0 <= yielded[k].start
          /\ yielded[k].start < yielded[k].end
          /\ yielded[k].end <= Len(blob)
    /\ pc = "write" => 0 <= soi /\ soi < end /\ end <= Len(blob)

\* a record was yielded whose first segment declares a length that moved the
\* cursor forward
C2_Witness ==
    \E k \in 1 .. Len(yielded) :
        /\ yielded[k].end - yielded[k].start >= 8
        /\ At(blob, yielded[k].start + 2) = 255
        /\ At(blob, yielded[k].start + 3) = 224

\* C3: a blob that is exactly one well-formed record yields exactly one
\* record, and its range is [0, len(blob)).
C3_SingleRecord ==
    (pc = "done" /\ WellFormed(blob)) =>
        /\ yielded = <<Range(0, Len(blob))>>
        /\ ret = 1

\* a pass over a well-formed record with a length-prefixed segment is done
C3_Witness ==
    /\ pc = "done"
    /\ WellFormed(blob)
    /\ At(blob, 3) = 224
    /\ yielded = <<Range(0, Len(blob))>>

\* the cursor is at an escape byte (or a run of them) followed by 0x00
AtStuffedPair ==
    /\ pc = "scan"
    /\ i >= 0
    /\ i < Len(blob) - 1
    /\ At(blob, i) = 255
    /\ \E z \in i + 1 .. Len(blob) - 1 :
          /\ At(blob, z) = 0
          /\ \A k \in i .. z - 1 : At(blob, k) = 255

\* the offset right after the 0x00 that follows the escape bytes at the cursor
AfterStuffedPair ==
    1 + CHOOSE z \in i + 1 .. Len(blob) - 1 :
          At(blob, z) = 0 /\ \A k \in i .. z - 1 : At(blob, k) = 255

\* C4: in scan mode an escape byte (or a run) followed by 0x00 is no marker:
\* the scan goes on, ScanState stays true, the cursor moves right after the
\* 0x00, nothing is yielded; and the scenario blob with the stuffed pair
\* is extracted as one record ending at its own end marker.
C4_StuffedPairIsPayload ==
    [][ /\ (AtStuffedPair /\ in_scan) =>
              /\ pc' = "scan"
              /\ in_scan'
              /\ i' = AfterStuffedPair
              /\ UNCHANGED <<yielded, rejected, pos, idx, files>>
        /\ (pc' = "done" /\ blob = ScenarioBlob) =>
              yielded' = <<Range(0, Len(ScenarioBlob))>>
      ]_vars

\* the scenario blob was split, and its one record spans the stuffed pair
C4_Witness ==
    /\ pc = "done"
    /\ blob = ScenarioBlob
    /\ yielded = <<Range(0, 18)>>
    /\ At(blob, 13) = 255 /\ At(blob, 14) = 0

\* there is a start signature, and no end marker behind the first one
Dangling(data) ==
    \E s \in 0 .. Len(data) - 2 :
        /\ IsSoiAt(data, s)
        /\ \A k \in 0 .. s - 1 : ~IsSoiAt(data, k)
        /\ \A k \in s + 2 .. Len(data) - 2 : ~IsEoiAt(data, k)

\* C5: a blob with a start signature but no end marker after it yields zero
\* records: nothing is written, no error leaves the pass, the count is 0.
C5_DanglingYieldsNothing ==
    Dangling(blob) =>
        /\ yielded = <<>>
        /\ files = <<>>
        /\ pc # "crashed"
        /\ pc = "done" => ret = 0

\* the pass over a dangling blob is done and its candidate was rejected
C5_Witness ==
    /\ pc = "done"
    /\ Dangling(blob)
    /\ rejected # <<>>
    /\ ret = 0

\* the handler of a failed attempt: no record, search position soi + 2, on
\* with the search
FalseStartSkipped ==
    pc = "except" =>
        /\ pc' = "find"
        /\ pos' = soi + 2
        /\ rejected' = Append(rejected, soi)
        /\ UNCHANGED <<yielded, idx, files>>

\* no rejected occurrence starts a yielded record
NoRecordForRejected ==
    \A n \in 1 .. Len(rejected) : \A k \in 1 .. Len(yielded) :
        yielded[k].start # rejected[n]

\* r is the first start signature at or after offset from
FirstSoiFrom(data, from, r) ==
    /\ r >= from
    /\ IsSoiAt(data, r)
    /\ \A k \in from .. r - 1 : ~IsSoiAt(data, k)

\* data[r:e] is yielded as a record of this pass
Yielded(r, e) == \E k \in 1 .. Len(yielded) : yielded[k] = Range(r, e)

\* every well-formed record that starts after a rejected occurrence is
\* yielded with its exact range
LaterRecordFound ==
    \A n \in 1 .. Len(rejected) :
        \A r \in rejected[n] + 2 .. Len(blob) - 2 :
            IsSoiAt(blob, r) =>
                \A e \in r + 8 .. Len(blob) :
                    WellFormed(Slice(blob, r, e)) => Yielded(r, e)

\* the same for the well-formed records that start at the first start
\* signature at or after the rejected occurrence + 2
NextRecordFound ==
    \A n \in 1 .. Len(rejected) :
        \A r \in rejected[n] + 2 .. Len(blob) - 2 :
            FirstSoiFrom(blob, rejected[n] + 2, r) =>
                \A e \in r + 8 .. Len(blob) :
                    WellFormed(Slice(blob, r, e)) => Yielded(r, e)

\* C6 as claimed: a failed attempt at o yields no record for o and sets the
\* search position to o + 2, and any well-formed record that starts later in
\* the blob is still yielded with its exact range.
C6_AnyLaterRecordFound ==
    [][ /\ FalseStartSkipped
        /\ pc' = "done" => (NoRecordForRejected' /\ LaterRecordFound')
      ]_vars

\* C6, amended: a failed attempt at o yields no record for o and sets the
\* search position to o + 2, and a well-formed record that starts at the
\* first start signature at or after o + 2 is yielded with its exact range.
C6_NextRecordFound ==
    [][ /\ FalseStartSkipped
        /\ pc' = "done" => (NoRecordForRejected' /\ NextRecordFound')
      ]_vars

\* a pass is done in which an occurrence was rejected and the well-formed
\* record at the next start signature was yielded
C6_Witness ==
    /\ pc = "done"
    /\ \E n \in 1 .. Len(rejected) : \E k \in 1 .. Len(yielded) :
          /\ FirstSoiFrom(blob, rejected[n] + 2, yielded[k].start)
          /\ WellFormed(Slice(blob, yielded[k].start, yielded[k].end))

\* C7: no error leaves the pass: whatever parse_one_jpeg raises is the
\* ValueError the splitter catches, and the pass ends only when no start
\* signature is left at or after the search position.
C7_NoErrorLeavesThePass ==
    /\ pc # "crashed"
    /\ exc \in {"none", "ValueError"}
    /\ pc = "except" => exc = "ValueError"
    /\ pc = "done" => \A k \in pos .. Len(blob) - 2 : ~IsSoiAt(blob, k)

\* an attempt has just failed on a length field cut off by the end of data
C7_Witness ==
    /\ pc = "except"
    /\ exc = "ValueError"
    /\ i >= 4
    /\ i + 2 > Len(blob)
    /\ At(blob, i - 2) = 255
    /\ At(blob, i - 1) \in {218, 224}

\* C8: the pass terminates: a scanner iteration that does not end the scan
\* moves the cursor forward, a splitter iteration that does not end the pass
\* moves the search position forward, and every pass reaches its end.
C8_Terminates ==
    /\ [][ /\ (pc = "scan" /\ pc' = "scan") => i' > i
           /\ (pc \in {"except", "write"} /\ pc' = "find") => pos' > pos
         ]_vars
    /\ <>(pc = "done" /\ pass = MaxPass)

\* the last pass is done after both a rejected and a yielded candidate
C8_Witness ==
    /\ pc = "done"
    /\ pass = MaxPass
    /\ rejected # <<>>
    /\ yielded # <<>>

\* the four decimal digits of k
FourDigits(k) ==
    <<(k \div 1000) % 10, (k \div 100) % 10, (k \div 10) % 10, k % 10>>

ArtifactName(k) == <<"img_">> \o FourDigits(k) \o <<".jpg">>

\* C9: the pass returns the number of records yielded; the k-th record (from
\* 0) is the artifact with the four-digit index k and holds blob[start:end];
\* the artifacts are exactly those of the indices 0 .. count-1.
C9_ArtifactsMatchRecords ==
    pc = "done" =>
        /\ ret = Len(yielded)
        /\ DOMAIN files = { ArtifactName(k - 1) : k \in 1 .. Len(yielded) }
        /\ \A k \in 1 .. Len(yielded) :
              files[ArtifactName(k - 1)] =
                  SubSeq(blob, yielded[k].start + 1, yielded[k].end)

\* a pass is done that wrote two records and rejected a candidate
C9_Witness ==
    /\ pc = "done"
    /\ ret = 2
    /\ Len(yielded) = 2
    /\ rejected # <<>>
    /\ DOMAIN files = {ArtifactName(0), ArtifactName(1)}

\* C10: a second pass over the same blob yields the sequence of records the
\* first one yielded.
C10_SamePassTwice ==
    (pc = "done" /\ pass > 1) => yielded = earlier

\* a second pass is done and yielded the same records again, after a
\* candidate was rejected
C10_Witness ==
    /\ pc = "done"
    /\ pass = 2
    /\ yielded = earlier
    /\ yielded # <<>>
    /\ rejected # <<>>

\* ------------------------------------------- the marker at the scan cursor

\* the scanner is at an escape byte that a category byte follows, after zero
\* or more further escape bytes
AtMarker ==
    /\ pc = "scan"
    /\ i >= 0
    /\ i < Len(blob) - 1
    /\ At(blob, i) = 255
    /\ \E j \in i + 1 .. Len(blob) - 1 :
          At(blob, j) # 255 /\ \A k \in i .. j - 1 : At(blob, k) = 255

\* the offset of that category byte
MarkerPos ==
    CHOOSE j \in i + 1 .. Len(blob) - 1 :
        At(blob, j) # 255 /\ \A k \in i .. j - 1 : At(blob, k) = 255

Category == At(blob, MarkerPos)

\* two bytes follow the category byte
LengthReadable == MarkerPos + 3 <= Len(blob)

\* the 16-bit big-endian number in them
DeclaredLength == At(blob, MarkerPos + 1) * 256 + At(blob, MarkerPos + 2)

\* the category byte is neither the end marker, nor scan-start, nor
\* standalone, nor a stuffing zero in scan mode
IsLengthPrefixed ==
    /\ Category \notin {217, 218, 216, 1} \cup (208 .. 215)
    /\ ~(in_scan /\ Category = 0)

\* C11: at every point of a record scan 0 <= cursor <= len(blob), also right
\* after the cursor is advanced by a declared length.
C11_CursorInBlob ==
    pc \in {"scan", "except", "write"} => (0 <= i /\ i <= Len(blob))

\* the cursor is at a segment (length-prefixed or scan-start) whose declared
\* length, at least 2, runs past the end of the blob
AtOverrun ==
    /\ AtMarker
    /\ IsLengthPrefixed \/ Category = 218
    /\ LengthReadable
    /\ DeclaredLength >= 2
    /\ MarkerPos + 1 + DeclaredLength > Len(blob)

\* C12: a segment whose declared length runs past the end of the blob makes
\* the record attempt fail: the scan consumes it without yielding, the next
\* loop test raises the error the splitter catches, and the splitter skips
\* two bytes and searches on; no record starts at that occurrence.
C12_OverrunFailsAttempt ==
    [][ /\ AtOverrun =>
              /\ pc' = "scan"
              /\ i' > Len(blob)
              /\ UNCHANGED <<yielded, files, idx, pos>>
        /\ (pc = "scan" /\ i > Len(blob)) =>
              /\ pc' = "except"
              /\ exc' = "ValueError"
              /\ UNCHANGED <<yielded, files, idx, pos>>
        /\ (pc = "except" /\ i > Len(blob)) =>
              /\ pc' = "find"
              /\ pos' = soi + 2
              /\ rejected' = Append(rejected, soi)
              /\ UNCHANGED <<yielded, files, idx>>
        /\ pc' = "done" => NoRecordForRejected'
      ]_vars

\* an occurrence was rejected after a declared length had carried the cursor
\* past the end of the blob, and the search went on behind it
C12_Witness ==
    /\ pc = "find"
    /\ i > Len(blob)
    /\ rejected # <<>>
    /\ pos = rejected[Len(rejected)] + 2
    /\ \A k \in 1 .. Len(yielded) : yielded[k].start # rejected[Len(rejected)]

\* the step consumes a scan-start segment: the category byte is DA and a
\* length of at least 2 follows it
ConsumesScanStart ==
    AtMarker /\ Category = 218 /\ LengthReadable /\ DeclaredLength >= 2

\* C13: ScanState is false when a record attempt starts, whatever the last
\* attempt left; within a scan it becomes true exactly in the step that
\* consumes a scan-start segment, and once true no step sets it back.
C13_ScanStateSticky ==
    [][ /\ (pc = "find" /\ pc' = "scan") => ~in_scan'
        /\ pc = "scan" =>
              /\ in_scan => in_scan'
              /\ ConsumesScanStart => in_scan'
              /\ (~in_scan /\ in_scan') => ConsumesScanStart
      ]_vars

\* a new attempt starts with ScanState false right after a record that had
\* a scan-start segment was yielded
C13_Witness ==
    /\ pc = "scan"
    /\ ~in_scan
    /\ i = soi + 2
    /\ yielded # <<>>
    /\ LET last == yielded[Len(yielded)] IN
          /\ At(blob, last.start + 2) = 255
          /\ At(blob, last.start + 3) = 218
          /\ last.end <= soi

\* offset o lies strictly inside a record yielded in this pass
InsideYielded(o) ==
    \E k \in 1 .. Len(yielded) : yielded[k].start < o /\ o < yielded[k].end

\* C14: within a pass the search position never decreases, and no start
\* signature strictly inside a yielded record is passed to the scanner or
\* yielded as the start of a record.
C14_NeverRevisited ==
    [][ /\ pc # "done" => pos' >= pos
        /\ pc' \in {"scan", "except", "write"} => ~InsideYielded(soi)'
        /\ \A k \in 1 .. Len(yielded') : ~InsideYielded(yielded[k].start)'
      ]_vars

\* a pass is done that yielded a record with a start signature strictly
\* inside it
C14_Witness ==
    /\ pc = "done"
    /\ \E o \in 1 .. Len(blob) - 2 : IsSoiAt(blob, o) /\ InsideYielded(o)

\* C15: a category byte that is neither end marker, scan-start, standalone
\* nor a stuffing zero in scan mode is a length-prefixed segment: with a
\* readable length L >= 2 the cursor moves to the offset right after the
\* category byte plus L and ScanState is left as it was.
C15_DefaultIsLengthPrefixed ==
    [][ (AtMarker /\ IsLengthPrefixed /\ LengthReadable
            /\ DeclaredLength >= 2) =>
            /\ pc' = "scan"
            /\ i' = MarkerPos + 1 + DeclaredLength
            /\ in_scan' = in_scan
            /\ UNCHANGED <<yielded, rejected, pos, idx, files>>
      ]_vars

\* in scan mode the cursor stands right behind a segment FF E0 of declared
\* length 4 that follows a scan-start segment with an empty header
C15_Witness ==
    /\ pc = "scan"
    /\ in_scan
    /\ soi + 12 <= Len(blob)
    /\ SubSeq(blob, soi + 3, soi + 6) = <<255, 218, 0, 2>>
    /\ SubSeq(blob, soi + 7, soi + 10) = <<255, 224, 0, 4>>
    /\ i = soi + 12

\* C16: on a scan-start marker the walker fails the attempt when fewer than
\* two bytes follow or the length in them is below 2, leaving ScanState as
\* it was and yielding nothing; else it moves the cursor by exactly that
\* length and sets ScanState.
C16_ScanStartSegment ==
    [][ (AtMarker /\ Category = 218) =>
            IF ~LengthReadable \/ DeclaredLength < 2
            THEN /\ pc' = "except"
                 /\ exc' = "ValueError"
                 /\ in_scan' = in_scan
                 /\ UNCHANGED <<yielded, files, idx>>
            ELSE /\ pc' = "scan"
                 /\ i' = MarkerPos + 1 + DeclaredLength
                 /\ in_scan'
      ]_vars

\* an attempt has just failed on a scan-start marker followed by a length
\* below 2, with ScanState still false
C16_Witness ==
    /\ pc = "except"
    /\ exc = "ValueError"
    /\ ~in_scan
    /\ i >= soi + 4
    /\ i + 2 <= Len(blob)
    /\ At(blob, i - 2) = 255
    /\ At(blob, i - 1) = 218
    /\ At(blob, i) * 256 + At(blob, i + 1) < 2

\* the range [s, e) starts with FF D8 and ends with FF D9
Delimited(s, e) ==
    /\ IsSoiAt(blob, s)
    /\ e >= s + 4
    /\ IsEoiAt(blob, e - 2)

\* C17: a successful scan returns the offset right after an end marker, of
\* a record that starts with the start signature, and it returns at the
\* first end marker met as a marker.
C17_EndsAtEndMarker ==
    [][ /\ (AtMarker /\ Category = 217) =>
              (pc' = "write" /\ end' = MarkerPos + 1)
        /\ pc' = "write" => Delimited(soi, end)'
        /\ \A k \in 1 .. Len(yielded') :
              Delimited(yielded[k].start, yielded[k].end)'
      ]_vars

\* a scan in scan mode has returned at an end marker that a later end
\* marker follows
C17_Witness ==
    /\ pc = "write"
    /\ in_scan
    /\ Delimited(soi, end)
    /\ \E k \in end .. Len(blob) - 2 : IsEoiAt(blob, k)

\* C18: a run of escape bytes is collapsed: the byte that is classified is
\* the first one behind the run, as end marker, as stuffing zero in scan
\* mode, as standalone marker or as segment; a run that reaches the end of
\* the blob fails the attempt.
C18_FillRunCollapsed ==
    [][ (pc = "scan" /\ 0 <= i /\ i < Len(blob) - 1 /\ At(blob, i) = 255) =>
            IF ~AtMarker
            THEN pc' = "except" /\ exc' = "ValueError"
            ELSE /\ Category = 217 =>
                       (pc' = "write" /\ end' = MarkerPos + 1)
                 /\ (in_scan /\ Category = 0) =>
                       (pc' = "scan" /\ i' = MarkerPos + 1 /\ in_scan')
                 /\ Category \in {216, 1} \cup (208 .. 215) =>
                       (pc' = "scan" /\ i' = MarkerPos + 1)
                 /\ ((IsLengthPrefixed \/ Category = 218)
                        /\ LengthReadable /\ DeclaredLength >= 2) =>
                       (pc' = "scan" /\ i' = MarkerPos + 1 + DeclaredLength)
      ]_vars

\* a scan has returned at an end marker that stands behind a run of two
\* escape bytes
C18_Witness ==
    /\ pc = "write"
    /\ end >= soi + 5
    /\ At(blob, end - 1) = 217
    /\ At(blob, end - 2) = 255
    /\ At(blob, end - 3) = 255
    /\ i = end

\* --------------------------------------------------------------- C19

\* the offset that entry k (from 0) of the table stands for
EntryOfs(k) ==
    base + UnpackU32(Slice(bgz, table_offset + 4 * k, table_offset + 4 * k + 4),
                     endian)

IsLastEntry(k) == k = count - 1

\* the size the next pointer (the end of the file for the last entry) gives
ComputedSize(k) ==
    IF IsLastEntry(k) THEN Len(bgz) - EntryOfs(k)
    ELSE EntryOfs(k + 1) - EntryOfs(k)

BadEntry(k) ==
    \/ ~(0 <= EntryOfs(k) /\ EntryOfs(k) < Len(bgz))
    \/ (~IsLastEntry(k) /\ EntryOfs(k + 1) < EntryOfs(k))
    \/ ComputedSize(k) <= 0
    \/ EntryOfs(k) + ComputedSize(k) > Len(bgz)

Returned == bpc \in {"extract", "done"}

\* C19: read_pointer_blocks returns one Block per table entry, in table
\* order, with index i; a block of size > 0 lies inside the file and its
\* size is the distance to the next absolute pointer (to the end of the file
\* for the last entry); an entry whose offset is out of range, whose next
\* pointer is smaller, or whose computed size is <= 0 or overruns the file
\* gets size 0 and a note; extract_blocks with skip_zero leaves no file of
\* such an entry.
C19_OneBlockPerEntry ==
    Returned =>
        /\ Len(blocks) = count
        /\ \A k \in 0 .. count - 1 :
              LET b == blocks[k + 1] IN
              /\ b.index = k
              /\ b.ofs = EntryOfs(k)
              /\ b.size > 0 =>
                    /\ 0 <= b.ofs /\ b.ofs < Len(bgz)
                    /\ b.ofs + b.size <= Len(bgz)
                    /\ b.size = ComputedSize(k)
              /\ BadEntry(k) => (b.size = 0 /\ b.note # "")
              /\ (BadEntry(k) /\ skip_zero) =>
                    ~Exists(out_blocks, BlockName(b))

C19_Witness ==
    /\ bpc = "done"
    /\ skip_zero
    /\ count = 2
    /\ BadEntry(0) /\ blocks[1].size = 0 /\ blocks[1].note = "BAD_SIZE"
    /\ ~BadEntry(1) /\ blocks[2].size > 0
    /\ Exists(out_blocks, BlockName(blocks[2]))
    /\ ~Exists(out_blocks, BlockName(blocks[1]))

====
